---- MODULE Spec2Model ----
(***************************************************************************)
(* Decision coordination and execution pipeline of the smart-building      *)
(* backend: the execution engine (services/execution_engine.py) as a state *)
(* machine over cooperative asyncio tasks, and the conflict resolver       *)
(* (services/decision_coordinator.py) as pure operators over lists of      *)
(* agent decisions.                                                        *)
(***************************************************************************)
EXTENDS Integers, Sequences, FiniteSets, TLC

\* ------------------------------------------------------------------------
\* Bounds of the model
\* ------------------------------------------------------------------------
MaxPlans == 2
MaxActions == 2
MaxRuns == 2
BurstActions == 6
MaxDecisions == 2
MaxProposals == 2
MaxSlos == 2
MaxStrategies == 2

\* ------------------------------------------------------------------------
\* Program constants
\* ------------------------------------------------------------------------
max_parallel_executions == 5

PlanIds == {"priority_weighted_120000", "safety_first_120000"}
ExecutionModes == {"AUTO", "MANUAL", "REVIEW"}

PENDING == "pending"
IN_PROGRESS == "in_progress"
COMPLETED == "completed"
FAILED == "failed"
CANCELLED == "cancelled"
Terminal == {COMPLETED, FAILED, CANCELLED}

VARIABLES
    plans,              \* the ExecutionPlan objects created so far, by creation order
    active_executions,  \* DecisionExecutionEngine.active_executions: plan id -> plan
    execution_history,  \* DecisionExecutionEngine.execution_history: list of plans
    runs,               \* the invocations of _execute_plan_actions that have not returned
    nRuns,              \* how many invocations of _execute_plan_actions there have been
    device_calls,       \* per plan and action: what the device controller was asked and answered
    lastCall            \* what the last call of the engine's API returned

VARIABLES
    agent_decisions,    \* the list of agent decisions handed to resolve_conflicts
    resolution          \* the strategy last applied to it and what it returned

VARIABLES
    context,            \* the current state of the room: room_data, sensor_data, devices
    slos,               \* the list of SLOs to evaluate against
    evaluation,         \* what evaluate_slos returned, once it was called on context and slos
    agent_results,      \* what gather() collects: per agent an exception or a decision
    resolution_strategies,  \* the strategies coordinate_decisions is called with
    decision_plans,     \* the list of plans coordinate_decisions returned
    pc                  \* where the call of coordinate_decisions is

VARIABLES
    _timestamps,        \* LLMRateLimiter._timestamps: for each stored timestamp, how long ago
                        \* it was taken (time.monotonic() - timestamp), capped at period
    callers,            \* per caller of acquire: where it is, and how long its sleep still lasts
    admitted            \* the calls of acquire that returned less than period ago: how long ago

resolverVars == <<agent_decisions, resolution>>

limiterVars == <<_timestamps, callers, admitted>>

coordinatorVars == <<context, slos, evaluation, agent_results, resolution_strategies,
                     decision_plans, pc>>

\* No coordination round and no SLO evaluation is under way.
CoordinatorIdle ==
    /\ context = [room_data |-> {}, sensor_data |-> {}, devices |-> <<>>]
    /\ slos = <<>>
    /\ evaluation = <<>>
    /\ agent_results = <<>>
    /\ resolution_strategies = <<>>
    /\ decision_plans = <<>>
    /\ pc = "idle"

engineVars == <<plans, active_executions, execution_history, runs, nRuns, device_calls, lastCall>>

MaxCallers == 3
MaxCalls == 2
Period == 3

Callers == 1..MaxCallers

\* Nobody has called acquire on the rate limiter.
LimiterIdle ==
    /\ _timestamps = <<>>
    /\ callers = [c \in Callers |-> [pc |-> "idle", sleep_for |-> 0]]
    /\ admitted = <<>>

\* ------------------------------------------------------------------------
\* Helpers on sequences
\* ------------------------------------------------------------------------
Range(s) == {s[i] : i \in DOMAIN s}

RemoveAt(s, i) == SubSeq(s, 1, i - 1) \o SubSeq(s, i + 1, Len(s))

CountIn(s, S) == Cardinality({i \in DOMAIN s : s[i] \in S})

\* ------------------------------------------------------------------------
\* ActionResult and ExecutionPlan
\* ------------------------------------------------------------------------
\* ActionResult.__init__: status PENDING, no error message.
ActionResult == [status |-> PENDING, error_message |-> FALSE]

\* ExecutionPlan.__init__: one ActionResult per action of the decision plan.
\* The engine reads the execution mode only here, to set approval_required.
ExecutionPlan(plan_id, nActions, execution_mode) ==
    [plan_id |-> plan_id,
     status |-> PENDING,
     approval_required |-> (execution_mode # "AUTO"),
     approved |-> FALSE,
     action_results |-> [a \in 1..nActions |-> ActionResult]]

\* get_progress_percentage without the factor 100.
get_progress_percentage_Fraction(plan) ==
    IF Len(plan.action_results) = 0
    THEN 0
    ELSE Cardinality({a \in DOMAIN plan.action_results :
                         plan.action_results[a].status \in {COMPLETED, FAILED}})
             \div Len(plan.action_results)

\* ExecutionPlan.get_progress_percentage (the float (completed/len)*100,
\* here rounded down to an integer).
get_progress_percentage(plan) ==
    IF Len(plan.action_results) = 0
    THEN 0
    ELSE (Cardinality({a \in DOMAIN plan.action_results :
                          plan.action_results[a].status \in {COMPLETED, FAILED}}) * 100)
             \div Len(plan.action_results)

\* ------------------------------------------------------------------------
\* DecisionExecutionEngine
\* ------------------------------------------------------------------------
Init ==
    /\ plans = <<>>
    /\ active_executions = <<>>
    /\ execution_history = <<>>
    /\ runs = <<>>
    /\ nRuns = 0
    /\ device_calls = <<>>
    /\ lastCall = "none"
    /\ agent_decisions = <<>>
    /\ resolution = [strategy |-> "none", resolved_actions |-> <<>>, conflicts |-> <<>>]
    /\ CoordinatorIdle
    /\ LimiterIdle

\* Removal of a key from the registry dict.
DictDel(d, k) == [x \in (DOMAIN d) \ {k} |-> d[x]]

\* Assignment d[k] = v on the registry dict.
DictSet(d, k, v) == [x \in (DOMAIN d) \cup {k} |-> IF x = k THEN v ELSE d[x]]

\* The outcome rule with any failed action failing the plan.
PlanOutcome_AnyFailed(action_results) ==
    IF \E a \in DOMAIN action_results : action_results[a].status = FAILED
    THEN FAILED
    ELSE COMPLETED

\* Lines 313-320 of _execute_plan_actions: the overall status of a plan
\* from its action results.
PlanOutcome(action_results) ==
    LET failed_actions == {a \in DOMAIN action_results : action_results[a].status = FAILED}
    IN  IF failed_actions = {} THEN COMPLETED
        ELSE IF Cardinality(failed_actions) < Len(action_results) THEN COMPLETED
        ELSE FAILED

\* The finally block of _execute_plan_actions: the plan is appended to the
\* history, and the entry under its plan id is deleted from the registry.
MoveToHistory(p, plan_id, registry) ==
    /\ execution_history' = Append(execution_history, p)
    /\ active_executions' =
          IF plan_id \in DOMAIN registry
          THEN DictDel(registry, plan_id)
          ELSE registry

\* The tasks of one invocation of _execute_plan_actions hold a permit of
\* that invocation's semaphore while their device call is in flight.
SemaphoreValue(run) == max_parallel_executions - CountIn(run.tasks, {"call"})

\* _execute_plan_actions up to its first suspension.  pl is the plan list
\* as the caller left it.  The status becomes IN_PROGRESS and one task per
\* action result is created; with no action gather() returns a finished
\* future, the coroutine is not suspended and goes on to the outcome and the
\* finally block in the same step.
_execute_plan_actions(p, pl, registry) ==
    IF Len(pl[p].action_results) = 0
    THEN /\ plans' = [pl EXCEPT ![p].status = PlanOutcome(pl[p].action_results)]
         /\ runs' = runs
         /\ MoveToHistory(p, pl[p].plan_id, registry)
    ELSE /\ plans' = [pl EXCEPT ![p].status = IN_PROGRESS]
         /\ runs' = Append(runs, [plan |-> p,
                                  tasks |-> [a \in DOMAIN pl[p].action_results |-> "ready"]])
         /\ execution_history' = execution_history
         /\ active_executions' = registry

\* execute_plan without the return of line 270: the plan that requires
\* approval is stored in the registry and executed all the same.
execute_plan_NoReturn(plan_id, nActions, execution_mode) ==
    /\ Len(plans) < MaxPlans
    /\ nRuns < MaxRuns
    /\ LET p == Len(plans) + 1
           execution_plan == ExecutionPlan(plan_id, nActions, execution_mode)
           pl == Append(plans, execution_plan)
           registry == IF execution_plan.approval_required
                       THEN DictSet(active_executions, plan_id, p)
                       ELSE active_executions
       IN  /\ device_calls' = Append(device_calls,
                                     [a \in 1..nActions |-> [calls |-> 0, failed |-> FALSE]])
           /\ nRuns' = nRuns + 1
           /\ _execute_plan_actions(p, pl, registry)
    /\ lastCall' = "plan"

\* execute_plan(decision_plan, execution_mode): a new ExecutionPlan; a plan
\* that requires approval is stored in the registry under its plan id and
\* returned, any other is executed at once.
execute_plan(plan_id, nActions, execution_mode) ==
    /\ Len(plans) < MaxPlans
    /\ LET p == Len(plans) + 1
           execution_plan == ExecutionPlan(plan_id, nActions, execution_mode)
           pl == Append(plans, execution_plan)
       IN  /\ device_calls' = Append(device_calls,
                                     [a \in 1..nActions |-> [calls |-> 0, failed |-> FALSE]])
           /\ IF execution_plan.approval_required /\ ~execution_plan.approved
              THEN /\ plans' = pl
                   /\ active_executions' = DictSet(active_executions, plan_id, p)
                   /\ UNCHANGED <<execution_history, runs, nRuns>>
              ELSE /\ nRuns < MaxRuns
                   /\ nRuns' = nRuns + 1
                   /\ _execute_plan_actions(p, pl, active_executions)
    /\ lastCall' = "plan"

\* approve_and_execute_plan looking the plan up in the history as well, the
\* way get_execution_status does.
approve_and_execute_plan_History(plan_id) ==
    LET found == IF plan_id \in DOMAIN active_executions
                 THEN {active_executions[plan_id]}
                 ELSE {execution_history[i] : i \in {j \in DOMAIN execution_history :
                                                       plans[execution_history[j]].plan_id = plan_id}}
    IN  IF found = {}
        THEN /\ lastCall' = "None"
             /\ UNCHANGED <<plans, active_executions, execution_history, runs, nRuns, device_calls>>
        ELSE /\ nRuns < MaxRuns
             /\ nRuns' = nRuns + 1
             /\ \E p \in found :
                   _execute_plan_actions(p, [plans EXCEPT ![p].approved = TRUE], active_executions)
             /\ lastCall' = "plan"
             /\ UNCHANGED device_calls

\* approve_and_execute_plan(plan_id, approved_by): None when the registry has
\* no plan under the id; otherwise the plan is marked approved and executed.
approve_and_execute_plan(plan_id) ==
    IF plan_id \notin DOMAIN active_executions
    THEN /\ lastCall' = "None"
         /\ UNCHANGED <<plans, active_executions, execution_history, runs, nRuns, device_calls>>
    ELSE /\ nRuns < MaxRuns
         /\ nRuns' = nRuns + 1
         /\ LET p == active_executions[plan_id]
            IN  _execute_plan_actions(p, [plans EXCEPT ![p].approved = TRUE], active_executions)
         /\ lastCall' = "plan"
         /\ UNCHANGED device_calls

\* cancel_execution without the del of line 392.
cancel_execution_NoDel(plan_id) ==
    IF plan_id \in DOMAIN active_executions
    THEN /\ LET p == active_executions[plan_id]
            IN  /\ plans' = [plans EXCEPT ![p].status = CANCELLED]
                /\ execution_history' = Append(execution_history, p)
         /\ lastCall' = "True"
         /\ UNCHANGED <<active_executions, runs, nRuns, device_calls>>
    ELSE /\ lastCall' = "False"
         /\ UNCHANGED <<plans, active_executions, execution_history, runs, nRuns, device_calls>>

\* cancel_execution(plan_id): the plan under the id is marked CANCELLED and
\* moved from the registry to the history; False when there is none.
cancel_execution(plan_id) ==
    IF plan_id \in DOMAIN active_executions
    THEN /\ LET p == active_executions[plan_id]
            IN  /\ plans' = [plans EXCEPT ![p].status = CANCELLED]
                /\ execution_history' = Append(execution_history, p)
         /\ active_executions' = DictDel(active_executions, plan_id)
         /\ lastCall' = "True"
         /\ UNCHANGED <<runs, nRuns, device_calls>>
    ELSE /\ lastCall' = "False"
         /\ UNCHANGED <<plans, active_executions, execution_history, runs, nRuns, device_calls>>

\* The tasks of run r that get to run next.  gather() created the tasks in
\* list order and they sit next to each other in the loop's ready queue, and
\* the semaphore wakes its waiters in the order they arrived: the first
\* SemaphoreValue waiting tasks run one after the other with no other
\* coroutine in between.
Admitted(run) ==
    {a \in DOMAIN run.tasks :
        /\ run.tasks[a] = "ready"
        /\ Cardinality({b \in 1..a : run.tasks[b] = "ready"}) <= SemaphoreValue(run)}

\* Each admitted task takes a permit of the run's semaphore, and
\* _execute_single_action marks the result IN_PROGRESS and calls the
\* device controller, where the task is suspended.
StartActions(r) ==
    /\ Admitted(runs[r]) # {}
    /\ LET p == runs[r].plan
           S == Admitted(runs[r])
       IN  /\ plans' = [plans EXCEPT ![p].action_results =
                            [a \in DOMAIN @ |-> IF a \in S THEN [@[a] EXCEPT !.status = IN_PROGRESS]
                                                ELSE @[a]]]
           /\ device_calls' = [device_calls EXCEPT ![p] =
                            [a \in DOMAIN @ |-> IF a \in S THEN [@[a] EXCEPT !.calls = @ + 1]
                                                ELSE @[a]]]
           /\ runs' = [runs EXCEPT ![r].tasks =
                            [a \in DOMAIN @ |-> IF a \in S THEN "call" ELSE @[a]]]
    /\ UNCHANGED <<active_executions, execution_history, nRuns, lastCall>>

\* The result that _execute_single_action stores when the device controller
\* answers: COMPLETED on success, FAILED with an error message otherwise.
SingleActionResult(action_result, success) ==
    IF success
    THEN [action_result EXCEPT !.status = COMPLETED]
    ELSE [action_result EXCEPT !.status = FAILED, !.error_message = TRUE]

\* The device controller answers the call of action a of run r; the task
\* stores the result and releases its permit.
CompleteAction(r, a, success) ==
    /\ runs[r].tasks[a] = "call"
    /\ LET p == runs[r].plan
       IN  /\ plans' = [plans EXCEPT ![p].action_results[a] = SingleActionResult(@, success)]
           /\ device_calls' = [device_calls EXCEPT ![p][a].failed = @ \/ ~success]
    /\ runs' = [runs EXCEPT ![r].tasks[a] = "done"]
    /\ UNCHANGED <<active_executions, execution_history, nRuns, lastCall>>

\* gather() has returned in run r: the overall status is set from the
\* action results and the plan is moved to the history.
FinishExecution(r) ==
    /\ r \in DOMAIN runs
    /\ \A a \in DOMAIN runs[r].tasks : runs[r].tasks[a] = "done"
    /\ LET p == runs[r].plan
       IN  /\ plans' = [plans EXCEPT ![p].status = PlanOutcome(plans[p].action_results)]
           /\ MoveToHistory(p, plans[p].plan_id, active_executions)
    /\ runs' = RemoveAt(runs, r)
    /\ UNCHANGED <<nRuns, device_calls, lastCall>>

Submit ==
    /\ \E id \in PlanIds, k \in 0..MaxActions, m \in ExecutionModes : execute_plan(id, k, m)
    /\ UNCHANGED resolverVars
    /\ UNCHANGED coordinatorVars
    /\ UNCHANGED limiterVars
Approve ==
    /\ \E id \in PlanIds : approve_and_execute_plan(id)
    /\ UNCHANGED resolverVars
    /\ UNCHANGED coordinatorVars
    /\ UNCHANGED limiterVars
Cancel ==
    /\ \E id \in PlanIds : cancel_execution(id)
    /\ UNCHANGED resolverVars
    /\ UNCHANGED coordinatorVars
    /\ UNCHANGED limiterVars
Start ==
    /\ \E r \in DOMAIN runs : StartActions(r)
    /\ UNCHANGED resolverVars
    /\ UNCHANGED coordinatorVars
    /\ UNCHANGED limiterVars
Complete ==
    /\ \E r \in DOMAIN runs : \E a \in DOMAIN runs[r].tasks :
          \E success \in BOOLEAN : CompleteAction(r, a, success)
    /\ UNCHANGED resolverVars
    /\ UNCHANGED coordinatorVars
    /\ UNCHANGED limiterVars
Finish ==
    /\ \E r \in DOMAIN runs : FinishExecution(r)
    /\ UNCHANGED resolverVars
    /\ UNCHANGED coordinatorVars
    /\ UNCHANGED limiterVars

Next == Submit \/ Approve \/ Cancel \/ Start \/ Complete \/ Finish

vars == <<plans, active_executions, execution_history, runs, nRuns, device_calls, lastCall,
          agent_decisions, resolution, context, slos, evaluation, agent_results,
          resolution_strategies, decision_plans, pc, _timestamps, callers, admitted>>

Spec == Init /\ [][Next]_vars

\* The event loop runs every ready task and the device controller answers
\* every call (its delay is a bounded sleep).
FairSpec ==
    /\ Spec
    /\ WF_vars(Start)
    /\ WF_vars(Complete)
    /\ WF_vars(Finish)

\* The engine right after two execute_plan calls in AUTO mode that are both
\* suspended in gather(): a plan of BurstActions actions and a plan of one.
BurstInit ==
    /\ plans = <<[ExecutionPlan("priority_weighted_120000", BurstActions, "AUTO")
                     EXCEPT !.status = IN_PROGRESS],
                 [ExecutionPlan("safety_first_120000", 1, "AUTO")
                     EXCEPT !.status = IN_PROGRESS]>>
    /\ active_executions = <<>>
    /\ execution_history = <<>>
    /\ runs = <<[plan |-> 1, tasks |-> [a \in 1..BurstActions |-> "ready"]],
                [plan |-> 2, tasks |-> <<"ready">>]>>
    /\ nRuns = 2
    /\ device_calls = <<[a \in 1..BurstActions |-> [calls |-> 0, failed |-> FALSE]],
                        <<[calls |-> 0, failed |-> FALSE]>>>>
    /\ lastCall = "plan"
    /\ agent_decisions = <<>>
    /\ resolution = [strategy |-> "none", resolved_actions |-> <<>>, conflicts |-> <<>>]
    /\ CoordinatorIdle
    /\ LimiterIdle

BurstNext == Start \/ Complete \/ Finish

BurstSpec == BurstInit /\ [][BurstNext]_vars

\* ------------------------------------------------------------------------
\* ConflictResolver
\* ------------------------------------------------------------------------
\* AgentType values, and the priority weights of AgentRegistry.AGENT_CONFIGS
\* in tenths.
EMERGENCY_RESPONSE == "emergency_response"
SECURITY == "security"
ENVIRONMENTAL == "environmental"
COMFORT == "comfort"
OCCUPANCY == "occupancy"
ENERGY_EFFICIENCY == "energy_efficiency"

\* The agent_type and priority fields the decisions of the model carry: three
\* registered agents, and a decision labelled with the enum member's name.
AgentProfiles ==
    {[agent_type |-> EMERGENCY_RESPONSE, priority |-> 10],
     [agent_type |-> COMFORT, priority |-> 7],
     [agent_type |-> OCCUPANCY, priority |-> 7],
     [agent_type |-> ENERGY_EFFICIENCY, priority |-> 6],
     [agent_type |-> "ENERGY_EFFICIENCY", priority |-> 6]}

DeviceIds == {"light_1", "hvac_1"}
ActionVerbs == {"turn_on", "turn_off"}
DeviceActions == [device_id : DeviceIds, action : ActionVerbs]

SeqsUpTo(S, n) == UNION {[1..k -> S] : k \in 0..n}

AgentDecisions ==
    {[agent_type |-> prof.agent_type, priority |-> prof.priority, decisions |-> acts] :
        prof \in AgentProfiles, acts \in SeqsUpTo(DeviceActions, MaxProposals)}

Strategies == {"priority_weighted", "majority_vote", "safety_first", "energy_balance"}

\* The elements of a sequence in the order of their first occurrence: the
\* key order of a dict filled by walking the sequence.
RECURSIVE FirstOccurrences(_)
FirstOccurrences(s) ==
    IF s = <<>> THEN <<>>
    ELSE LET front == FirstOccurrences(SubSeq(s, 1, Len(s) - 1))
         IN  IF s[Len(s)] \in Range(front) THEN front ELSE Append(front, s[Len(s)])

\* The two nested loops every strategy runs: the actions of all decisions in
\* list order, each with the agent type and priority of its decision.
RECURSIVE ProposedActions(_)
ProposedActions(decisions) ==
    IF decisions = <<>> THEN <<>>
    ELSE [j \in 1..Len(Head(decisions).decisions) |->
             [action |-> Head(decisions).decisions[j],
              agent |-> Head(decisions).agent_type,
              priority |-> Head(decisions).priority]]
         \o ProposedActions(Tail(decisions))

\* The first entry, whatever its priority.
MaxByPriority_First(conflicts) == conflicts[1]

\* max(conflicts, key=priority): the first entry of the largest priority.
MaxByPriority(conflicts) ==
    conflicts[CHOOSE i \in DOMAIN conflicts :
                 /\ \A j \in DOMAIN conflicts : conflicts[j].priority <= conflicts[i].priority
                 /\ \A j \in 1..(i - 1) : conflicts[j].priority < conflicts[i].priority]

\* _priority_weighted_resolution with the devices of a single proposal left
\* out of the resolved actions.
_priority_weighted_resolution_ConflictsOnly(decisions) ==
    LET proposed == ProposedActions(decisions)
        device_ids == FirstOccurrences([i \in DOMAIN proposed |-> proposed[i].action.device_id])
        conflicts(d) == SelectSeq(proposed, LAMBDA x : x.action.device_id = d)
        contested == SelectSeq(device_ids, LAMBDA d : Len(conflicts(d)) > 1)
    IN  [resolved_actions |-> [k \in DOMAIN contested |-> MaxByPriority(conflicts(contested[k])).action],
         conflicts |-> [k \in DOMAIN contested |->
                           [device_id |-> contested[k],
                            winner |-> MaxByPriority(conflicts(contested[k])).agent]],
         resolution_method |-> "priority_weighted"]

\* _priority_weighted_resolution: the proposals are grouped by device; a
\* device with one proposal gets it, a device with several gets the one of
\* the highest priority, and a conflict entry.
_priority_weighted_resolution(decisions) ==
    LET proposed == ProposedActions(decisions)
        device_ids == FirstOccurrences([i \in DOMAIN proposed |-> proposed[i].action.device_id])
        conflicts(d) == SelectSeq(proposed, LAMBDA x : x.action.device_id = d)
        winner(d) == IF Len(conflicts(d)) = 1 THEN conflicts(d)[1] ELSE MaxByPriority(conflicts(d))
        contested == SelectSeq(device_ids, LAMBDA d : Len(conflicts(d)) > 1)
    IN  [resolved_actions |-> [k \in DOMAIN device_ids |-> winner(device_ids[k]).action],
         conflicts |-> [k \in DOMAIN contested |->
                           [device_id |-> contested[k],
                            winner |-> winner(contested[k]).agent]],
         resolution_method |-> "priority_weighted"]

\* The vote key f"{device_id}_{action_type}".
VoteKey(action) == action.device_id \o "_" \o action.action

\* _majority_vote_resolution: one vote per proposed action under its key; the
\* first action stored under a key of at least 2 votes is kept.
_majority_vote_resolution(decisions) ==
    LET proposed == ProposedActions(decisions)
        keys == FirstOccurrences([i \in DOMAIN proposed |-> VoteKey(proposed[i].action)])
        voters(key) == SelectSeq(proposed, LAMBDA x : VoteKey(x.action) = key)
        elected == SelectSeq(keys, LAMBDA key : Len(voters(key)) >= 2)
    IN  [resolved_actions |-> [k \in DOMAIN elected |-> voters(elected[k])[1].action],
         conflicts |-> <<>>,
         resolution_method |-> "majority_vote"]

priority_order ==
    <<EMERGENCY_RESPONSE, SECURITY, ENVIRONMENTAL, COMFORT, OCCUPANCY, ENERGY_EFFICIENCY>>

\* _priority_key: the position in priority_order (from 0), its length for
\* an agent type that is not in it.
_priority_key(x) ==
    IF x.agent_type \in Range(priority_order)
    THEN (CHOOSE i \in DOMAIN priority_order : priority_order[i] = x.agent_type) - 1
    ELSE Len(priority_order)

\* The decisions in the order of the input list.
SortedFrom_InputOrder(decisions, k) == decisions

\* sorted(agent_decisions, key=_priority_key): a stable sort.
RECURSIVE SortedFrom(_, _)
SortedFrom(decisions, k) ==
    IF k > Len(priority_order) THEN <<>>
    ELSE SelectSeq(decisions, LAMBDA x : _priority_key(x) = k) \o SortedFrom(decisions, k + 1)

\* _safety_first_resolution: the decisions are walked in the sorted order
\* and an action is kept when its device has not been assigned yet.
_safety_first_resolution(decisions) ==
    LET proposed == ProposedActions(SortedFrom(decisions, 0))
        kept == {i \in DOMAIN proposed :
                    \A j \in 1..(i - 1) : proposed[j].action.device_id # proposed[i].action.device_id}
        RECURSIVE Keep(_)
        Keep(i) == IF i = 0 THEN <<>>
                   ELSE IF i \in kept THEN Append(Keep(i - 1), proposed[i].action)
                   ELSE Keep(i - 1)
    IN  [resolved_actions |-> Keep(Len(proposed)),
         conflicts |-> <<>>,
         resolution_method |-> "safety_first"]

\* _energy_balance_resolution: the actions of the decisions whose agent_type
\* is the string 'ENERGY_EFFICIENCY' are set apart; all the others are kept,
\* then those set apart whose device no other action uses.
_energy_balance_resolution(decisions) ==
    LET energy_decisions ==
            ProposedActions(SelectSeq(decisions, LAMBDA x : x.agent_type = "ENERGY_EFFICIENCY"))
        other_decisions ==
            ProposedActions(SelectSeq(decisions, LAMBDA x : x.agent_type # "ENERGY_EFFICIENCY"))
        used_devices == {other_decisions[i].action.device_id : i \in DOMAIN other_decisions}
        added == SelectSeq(energy_decisions, LAMBDA x : x.action.device_id \notin used_devices)
    IN  [resolved_actions |-> [i \in DOMAIN other_decisions |-> other_decisions[i].action]
                                \o [i \in DOMAIN added |-> added[i].action],
         conflicts |-> <<>>,
         resolution_method |-> "energy_balance"]

\* resolve_conflicts: the strategy's function, _priority_weighted_resolution
\* for a strategy that is not registered.
resolve_conflicts(decisions, strategy) ==
    CASE strategy = "priority_weighted" -> _priority_weighted_resolution(decisions)
      [] strategy = "majority_vote" -> _majority_vote_resolution(decisions)
      [] strategy = "safety_first" -> _safety_first_resolution(decisions)
      [] strategy = "energy_balance" -> _energy_balance_resolution(decisions)
      [] OTHER -> _priority_weighted_resolution(decisions)

\* One call of resolve_conflicts on the collected decisions.
Resolve(strategy) ==
    /\ LET result == resolve_conflicts(agent_decisions, strategy)
       IN  resolution' = [strategy |-> strategy,
                          resolved_actions |-> result.resolved_actions,
                          conflicts |-> result.conflicts]
    /\ UNCHANGED agent_decisions
    /\ UNCHANGED engineVars
    /\ UNCHANGED coordinatorVars
    /\ UNCHANGED limiterVars

\* Any list of at most MaxDecisions agent decisions, before it is resolved.
ResolverInit ==
    /\ agent_decisions \in SeqsUpTo(AgentDecisions, MaxDecisions)
    /\ resolution = [strategy |-> "none", resolved_actions |-> <<>>, conflicts |-> <<>>]
    /\ plans = <<>>
    /\ active_executions = <<>>
    /\ execution_history = <<>>
    /\ runs = <<>>
    /\ nRuns = 0
    /\ device_calls = <<>>
    /\ lastCall = "none"
    /\ CoordinatorIdle
    /\ LimiterIdle

ResolverNext == \E strategy \in Strategies : Resolve(strategy)

ResolverSpec == ResolverInit /\ [][ResolverNext]_vars

\* ------------------------------------------------------------------------
\* SLOEvaluationEngine
\* ------------------------------------------------------------------------
\* Numbers: a compliance score, a weight, a confidence and a plan score are
\* integers in thousandths (1.0 is 1000); a temperature is in tenths of a
\* degree; humidity is in percent; a quotient is rounded down.
\* A dict (sensor data, the config of an SLO) is a set of <<key, value>> pairs
\* with at most one pair per key.

\* d.get(key, default)
Get(d, key, default) ==
    IF \E kv \in d : kv[1] = key
    THEN (CHOOSE kv \in d : kv[1] = key)[2]
    ELSE default

\* d[key] = value
Put(d, key, value) == {kv \in d : kv[1] # key} \cup {<<key, value>>}

Max(a, b) == IF a >= b THEN a ELSE b
Min(a, b) == IF a <= b THEN a ELSE b

RECURSIVE SumSeq(_)
SumSeq(s) == IF s = <<>> THEN 0 ELSE Head(s) + SumSeq(Tail(s))

\* The keys of SLOEvaluationEngine.evaluation_functions.
evaluation_functions ==
    {"temperature_comfort", "energy_efficiency", "security_lighting", "air_quality_co2",
     "occupancy_optimization", "humidity_control", "emergency_readiness"}

\* _evaluate_temperature_comfort: 1.0 inside [min_temp, max_temp], less
\* deviation/5.0 outside, not below 0.0.
_evaluate_temperature_comfort(slo, room_data, sensor_data, devices) ==
    LET current_temp == Get(sensor_data, "temperature", 220)
        min_temp == Get(slo.config, "min_temp", 220)
        max_temp == Get(slo.config, "max_temp", 240)
        compliance_score ==
            IF min_temp <= current_temp /\ current_temp <= max_temp THEN 1000
            ELSE IF current_temp < min_temp
                 THEN Max(0, 1000 - ((min_temp - current_temp) * 1000) \div 50)
                 ELSE Max(0, 1000 - ((current_temp - max_temp) * 1000) \div 50)
    IN  [slo_name |-> slo.name,
         metric |-> slo.metric,
         compliance_score |-> compliance_score,
         priority |-> IF compliance_score < 600 THEN "high"
                      ELSE IF compliance_score < 800 THEN "medium" ELSE "low"]

\* _evaluate_security_lighting: 1.0 with min_lights lights on, otherwise the
\* fraction of them that is on.
_evaluate_security_lighting(slo, room_data, sensor_data, devices) ==
    LET lighting_devices == SelectSeq(devices, LAMBDA d : d.type = "Lighting")
        lights_on == Len(SelectSeq(lighting_devices, LAMBDA d : d.status = "ON"))
        min_lights_required == Get(slo.config, "min_lights", 1)
        compliance_score ==
            IF lights_on >= min_lights_required THEN 1000
            ELSE IF min_lights_required > 0
                 THEN (lights_on * 1000) \div min_lights_required
                 ELSE 0
    IN  [slo_name |-> slo.name,
         metric |-> slo.metric,
         compliance_score |-> compliance_score,
         priority |-> IF compliance_score < 500 THEN "high" ELSE "medium"]

\* _evaluate_humidity_control: 1.0 inside [min_humidity, max_humidity], less
\* deviation/30.0 outside, not below 0.0.
_evaluate_humidity_control(slo, room_data, sensor_data, devices) ==
    LET current_humidity == Get(sensor_data, "humidity", 50)
        min_humidity == Get(slo.config, "min_humidity", 40)
        max_humidity == Get(slo.config, "max_humidity", 60)
        compliance_score ==
            IF min_humidity <= current_humidity /\ current_humidity <= max_humidity THEN 1000
            ELSE IF current_humidity < min_humidity
                 THEN Max(0, 1000 - ((min_humidity - current_humidity) * 1000) \div 30)
                 ELSE Max(0, 1000 - ((current_humidity - max_humidity) * 1000) \div 30)
    IN  [slo_name |-> slo.name,
         metric |-> slo.metric,
         compliance_score |-> compliance_score,
         priority |-> "medium"]

\* _evaluate_generic_slo: the sensor value of the metric's name over the
\* target value, at most 1.0; with no positive target 1.0 when the value
\* equals the target and 0.5 otherwise.
_evaluate_generic_slo(slo, sensor_data) ==
    LET metric_value == Get(sensor_data, slo.metric, 0)
        target_value == slo.target_value
        compliance_score ==
            IF target_value > 0
            THEN Min(1000, (metric_value * 1000) \div target_value)
            ELSE IF metric_value = target_value THEN 1000 ELSE 500
    IN  [slo_name |-> slo.name,
         metric |-> slo.metric,
         compliance_score |-> compliance_score,
         priority |-> "low"]

\* _evaluate_single_slo: the function registered for the metric, the generic
\* one for a metric that has none.  The SLOs of the model carry three of the
\* registered metrics.
_evaluate_single_slo(slo, room_data, sensor_data, devices) ==
    IF slo.metric \in evaluation_functions
    THEN CASE slo.metric = "temperature_comfort" ->
                  _evaluate_temperature_comfort(slo, room_data, sensor_data, devices)
           [] slo.metric = "security_lighting" ->
                  _evaluate_security_lighting(slo, room_data, sensor_data, devices)
           [] slo.metric = "humidity_control" ->
                  _evaluate_humidity_control(slo, room_data, sensor_data, devices)
    ELSE _evaluate_generic_slo(slo, sensor_data)

\* _get_violation_severity
_get_violation_severity(compliance_score) ==
    IF compliance_score < 300 THEN "critical"
    ELSE IF compliance_score < 600 THEN "high"
    ELSE IF compliance_score < 800 THEN "medium"
    ELSE "low"

\* _calculate_category_scores: per category the mean of the scores of its
\* metrics, 1.0 for a category without result.
_calculate_category_scores(slo_results) ==
    LET category(metric) ==
            CASE metric \in {"temperature_comfort", "humidity_control"} -> "comfort"
              [] metric \in {"air_quality_co2", "occupancy_optimization"} -> "environmental"
              [] metric = "energy_efficiency" -> "energy"
              [] metric \in {"security_lighting", "emergency_readiness"} -> "security"
              [] OTHER -> "environmental"
        scores(c) == SelectSeq(slo_results, LAMBDA r : category(r.metric) = c)
        mean(c) == IF scores(c) # <<>>
                   THEN SumSeq([i \in DOMAIN scores(c) |-> scores(c)[i].compliance_score])
                            \div Len(scores(c))
                   ELSE 1000
    IN  [comfort |-> mean("comfort"), energy |-> mean("energy"),
         security |-> mean("security"), environmental |-> mean("environmental")]

\* evaluate_room_slos: every active SLO is evaluated; overall_compliance is
\* the mean of the scores weighted by the SLOs' weights, 0.0 when the
\* weights sum to nothing; a score under 0.8 is a violation.
evaluate_room_slos(room_data, sensor_data, devices, slo_list) ==
    LET active == SelectSeq(slo_list, LAMBDA slo : slo.active)
        total_weight == SumSeq([i \in DOMAIN active |-> active[i].weight])
        slo_results == [i \in DOMAIN active |->
                           _evaluate_single_slo(active[i], room_data, sensor_data, devices)]
        weighted_score == SumSeq([i \in DOMAIN active |->
                                     slo_results[i].compliance_score * active[i].weight])
        violating == SelectSeq(slo_results, LAMBDA r : r.compliance_score < 800)
    IN  [overall_compliance |-> IF total_weight > 0 THEN weighted_score \div total_weight ELSE 0,
         slo_results |-> slo_results,
         violations |-> [i \in DOMAIN violating |->
                            [slo_name |-> violating[i].slo_name,
                             severity |-> _get_violation_severity(violating[i].compliance_score)]],
         scores |-> _calculate_category_scores(slo_results)]

\* SLOService.evaluate_slos
evaluate_slos(room_data, sensor_data, devices, slo_list) ==
    evaluate_room_slos(room_data, sensor_data, devices, slo_list)

\* ------------------------------------------------------------------------
\* DecisionPlan and DecisionPlanScorer
\* ------------------------------------------------------------------------
\* DecisionPlan.__init__.  The empty dict slo_compliance={} is the empty
\* sequence, the dict the scorer stores is a sequence of one evaluation.
DecisionPlan(plan_id, decisions, slo_compliance, metadata) ==
    [plan_id |-> plan_id,
     agent_decisions |-> decisions,
     slo_compliance |-> slo_compliance,
     metadata |-> metadata,
     score |-> 0,
     confidence |-> 0,
     actions |-> <<>>]

\* _apply_action_to_state: the first device of the action's device id is
\* switched; the actions of the model are turn_on and turn_off.
_apply_action_to_state(action, state) ==
    LET matching == {i \in DOMAIN state.devices : state.devices[i].id = action.device_id}
    IN  IF matching = {} THEN state
        ELSE LET i == CHOOSE i \in matching : \A j \in matching : i <= j
             IN  CASE action.action = "turn_on" ->
                          [state EXCEPT !.devices[i].status = "ON"]
                   [] action.action = "turn_off" ->
                          [state EXCEPT !.devices[i].status = "OFF"]
                   [] OTHER -> state

\* _simulate_environmental_response: HVAC devices that are on move the
\* temperature 20% towards their mean target (a device of the model has no
\* target_temperature, so the default 23) and take 2 off the humidity, not
\* under 30; AirFlow devices that are on take 50 each off the CO2, not under
\* 350.
_simulate_environmental_response(state) ==
    LET devices == state.devices
        hvac_devices == SelectSeq(devices, LAMBDA d : d.type = "HVAC" /\ d.status = "ON")
        airflow_devices == SelectSeq(devices, LAMBDA d : d.type = "AirFlow" /\ d.status = "ON")
        target_temp == SumSeq([i \in DOMAIN hvac_devices |-> 230]) \div Len(hvac_devices)
        current_temp == Get(state.sensor_data, "temperature", 220)
        s1 == IF hvac_devices # <<>>
              THEN Put(state.sensor_data, "temperature",
                       current_temp + ((target_temp - current_temp) * 2) \div 10)
              ELSE state.sensor_data
        s2 == IF airflow_devices # <<>>
              THEN Put(s1, "co2", Max(350, Get(s1, "co2", 400) - Len(airflow_devices) * 50))
              ELSE s1
        s3 == IF hvac_devices # <<>>
              THEN Put(s2, "humidity", Max(30, Get(s2, "humidity", 50) - 2))
              ELSE s2
    IN  [state EXCEPT !.sensor_data = s3]

\* The for loop of _simulate_plan_impact over the actions of the plan.
RECURSIVE ApplyActions(_, _)
ApplyActions(actions, state) ==
    IF actions = <<>> THEN state
    ELSE ApplyActions(Tail(actions), _apply_action_to_state(Head(actions), state))

\* The predicted state with the dicts of the current state themselves in it.
predicted_state_Shared(current_state) ==
    [state |-> current_state, shared |-> {"room_data", "sensor_data", "devices"}]

\* The predicted state _simulate_plan_impact builds from room_data.copy(),
\* sensor_data.copy() and d.copy() of every device: dicts of the same keys
\* and values, none of which is a dict of the current state.  shared is the
\* set of the keys whose dicts the two states have in common.
predicted_state(current_state) ==
    [state |-> current_state, shared |-> {}]

\* The two states once the simulation has written its result into the
\* predicted state: a write to a dict the two states share is a write to
\* the current state as well.
AfterWrites(current_state, shared, result) ==
    [predicted_state |-> result,
     current_state |-> [key \in DOMAIN current_state |->
                           IF key \in shared THEN result[key] ELSE current_state[key]]]

\* _simulate_plan_impact: the plan's actions and the environment's response
\* are written into the predicted state, which is returned.
_simulate_plan_impact(plan, current_state) ==
    LET copied == predicted_state(current_state)
    IN  AfterWrites(current_state, copied.shared,
                    _simulate_environmental_response(ApplyActions(plan.actions, copied.state)))

\* decision.get('confidence', 0.5); the field is <<>> for a decision without
\* the key.
ConfidenceOf(decision) ==
    IF decision.confidence = <<>> THEN 500 ELSE decision.confidence[1]

\* The second half of score_decision_plan: the composite score of the plan
\* from the evaluation of the predicted state, stored in the plan with the
\* confidence and the evaluation, or the exception of the division by
\* len(plan.agent_decisions).
CompositeScore(plan, current_state, predicted_evaluation) ==
    IF Len(plan.agent_decisions) = 0
    THEN [exception |-> "ZeroDivisionError", plan |-> plan,
          current_state |-> current_state]
    ELSE LET agent_confidence ==
                 SumSeq([i \in DOMAIN plan.agent_decisions |->
                            ConfidenceOf(plan.agent_decisions[i])])
                     \div Len(plan.agent_decisions)
             complexity_penalty == Min(100, Len(plan.actions) * 20)
             composite_score ==
                 (predicted_evaluation.overall_compliance * 7 + agent_confidence * 3) \div 10
                     - complexity_penalty
         IN  [exception |-> "none",
              plan |-> [plan EXCEPT !.score = Max(0, Min(1000, composite_score)),
                                    !.confidence = agent_confidence,
                                    !.slo_compliance = <<predicted_evaluation>>],
              current_state |-> current_state]

\* The first half of score_decision_plan: the SLOs are evaluated on the
\* predicted state.
ScoreSimulated(plan, simulated, slo_list) ==
    CompositeScore(plan, simulated.current_state,
                   evaluate_slos(simulated.predicted_state.room_data,
                                 simulated.predicted_state.sensor_data,
                                 simulated.predicted_state.devices, slo_list))

\* score_decision_plan: the plan with score, confidence and slo_compliance
\* stored, or the exception; current_state is the caller's state as the
\* call leaves it.
score_decision_plan(plan, current_state, slo_list) ==
    ScoreSimulated(plan, _simulate_plan_impact(plan, current_state), slo_list)

\* ------------------------------------------------------------------------
\* MultiAgentCoordinator
\* ------------------------------------------------------------------------
\* self.agents in the order of the dict, with the agent_type value and the
\* priority weight (in tenths) each agent puts in its decisions.
agents ==
    <<[name |-> "security", agent_type |-> SECURITY, priority |-> 9],
      [name |-> "comfort", agent_type |-> COMFORT, priority |-> 7],
      [name |-> "energy", agent_type |-> ENERGY_EFFICIENCY, priority |-> 6],
      [name |-> "emergency", agent_type |-> EMERGENCY_RESPONSE, priority |-> 10],
      [name |-> "environmental", agent_type |-> ENVIRONMENTAL, priority |-> 6],
      [name |-> "occupancy", agent_type |-> OCCUPANCY, priority |-> 7]>>

\* What make_decision of agent k may reply in the model: the first three
\* agents one of three decisions, the last three a decision without action.
AgentReplies(k) ==
    IF k <= 3
    THEN {[decisions |-> <<[device_id |-> "light_1", action |-> "turn_on"]>>,
           confidence |-> <<900>>],
          [decisions |-> <<[device_id |-> "light_1", action |-> "turn_off"]>>,
           confidence |-> <<>>],
          [decisions |-> <<[device_id |-> "hvac_1", action |-> "turn_off"]>>,
           confidence |-> <<0>>]}
    ELSE {[decisions |-> <<>>, confidence |-> <<900>>]}

\* make_decision of the next agent ends: it raises, or it returns a decision
\* dict with the agent's type and priority.  (The tasks are independent and
\* gather() orders the results by task, so they are taken in that order.)
make_decision ==
    /\ pc = "collecting"
    /\ Len(agent_results) < Len(agents)
    /\ LET k == Len(agent_results) + 1
       IN  \/ agent_results' = Append(agent_results, [raised |-> TRUE, decision |-> <<>>])
           \/ \E reply \in AgentReplies(k) :
                 agent_results' =
                     Append(agent_results,
                            [raised |-> FALSE,
                             decision |-> <<[agent_id |-> agents[k].name,
                                             agent_type |-> agents[k].agent_type,
                                             priority |-> agents[k].priority,
                                             decisions |-> reply.decisions,
                                             confidence |-> reply.confidence]>>])
    /\ UNCHANGED <<pc, agent_decisions, decision_plans, context, slos,
                   resolution_strategies, evaluation, resolution>>
    /\ UNCHANGED engineVars
    /\ UNCHANGED limiterVars

\* _collect_agent_decisions keeping a placeholder decision for an agent
\* that raised.
_collect_agent_decisions_KeepFailed(results) ==
    [i \in DOMAIN results |->
        IF results[i].raised
        THEN [agent_id |-> agents[i].name,
              agent_type |-> agents[i].agent_type,
              priority |-> agents[i].priority,
              decisions |-> <<>>,
              confidence |-> <<>>]
        ELSE results[i].decision[1]]

\* _collect_agent_decisions after gather(): the results that are exceptions
\* are skipped, the dicts are kept in the order of the agents.
_collect_agent_decisions(results) ==
    LET valid == SelectSeq(results, LAMBDA result : ~result.raised)
    IN  [i \in DOMAIN valid |-> valid[i].decision[1]]

\* _add_execution_recommendations with the thresholds on the score only.
_add_execution_recommendations_ScoreOnly(plan_list) ==
    [i \in DOMAIN plan_list |->
        LET plan == plan_list[i]
            violations == plan.slo_compliance[1].violations
        IN  [plan EXCEPT !.metadata = @ @@
                [execution_recommendation |->
                     IF plan.score >= 900 THEN "AUTO"
                     ELSE IF plan.score >= 700 THEN "REVIEW"
                     ELSE "MANUAL",
                 rank |-> i,
                 total_plans |-> Len(plan_list),
                 slo_violations |-> Len(violations),
                 critical_violations |->
                     Len(SelectSeq(violations, LAMBDA v : v.severity = "critical"))]]]

\* _add_execution_recommendations: AUTO, REVIEW or MANUAL from the fixed
\* thresholds on score and confidence, the rank and the number of plans, and
\* the counts of SLO violations (every plan has been scored, so its
\* slo_compliance is not empty).
_add_execution_recommendations(plan_list) ==
    [i \in DOMAIN plan_list |->
        LET plan == plan_list[i]
            violations == plan.slo_compliance[1].violations
        IN  [plan EXCEPT !.metadata = @ @@
                [execution_recommendation |->
                     IF plan.score >= 900 /\ plan.confidence >= 850 THEN "AUTO"
                     ELSE IF plan.score >= 700 /\ plan.confidence >= 700 THEN "REVIEW"
                     ELSE "MANUAL",
                 rank |-> i,
                 total_plans |-> Len(plan_list),
                 slo_violations |-> Len(violations),
                 critical_violations |->
                     Len(SelectSeq(violations, LAMBDA v : v.severity = "critical"))]]]

\* list.sort(key=lambda p: p.score, reverse=True): stable, so plans of equal
\* score keep their order.
RECURSIVE SortByScore(_)
SortByScore(plan_list) ==
    IF plan_list = <<>> THEN <<>>
    ELSE LET front == SortByScore(SubSeq(plan_list, 1, Len(plan_list) - 1))
             last == plan_list[Len(plan_list)]
             before == SelectSeq(front, LAMBDA p : p.score >= last.score)
             after == SelectSeq(front, LAMBDA p : p.score < last.score)
         IN  before \o <<last>> \o after

\* One iteration of the loop of coordinate_decisions over the strategies:
\* the conflicts are resolved, the plan is created and scored.
PlanFor(strategy, decisions, current_state, slo_list) ==
    LET resolution_result == resolve_conflicts(decisions, strategy)
        plan == DecisionPlan(strategy \o "_120000", decisions, <<>>,
                             [resolution_strategy |-> strategy,
                              conflicts_resolved |-> Len(resolution_result.conflicts),
                              total_actions |-> Len(resolution_result.resolved_actions)])
    IN  score_decision_plan([plan EXCEPT !.actions = resolution_result.resolved_actions],
                            current_state, slo_list)

\* The loop of coordinate_decisions over the strategies: every plan is
\* scored against the context as the plans before it left it; an exception
\* of the scorer ends the loop.
RECURSIVE ScoredPlans(_, _, _, _)
ScoredPlans(strategies, decisions, current_state, slo_list) ==
    IF strategies = <<>>
    THEN [exception |-> "none", decision_plans |-> <<>>, current_state |-> current_state]
    ELSE LET first == PlanFor(Head(strategies), decisions, current_state, slo_list)
         IN  IF first.exception # "none"
             THEN [exception |-> first.exception, decision_plans |-> <<>>,
                   current_state |-> first.current_state]
             ELSE LET rest == ScoredPlans(Tail(strategies), decisions,
                                          first.current_state, slo_list)
                  IN  [exception |-> rest.exception,
                       decision_plans |-> <<first.plan>> \o rest.decision_plans,
                       current_state |-> rest.current_state]

\* coordinate_decisions once gather() has returned: the decisions are
\* collected, one plan per strategy is built and scored, the plans are
\* sorted by score and annotated; an exception of the scorer ends the call.
coordinate_decisions ==
    /\ pc = "collecting"
    /\ Len(agent_results) = Len(agents)
    /\ LET decisions == _collect_agent_decisions(agent_results)
           scored == ScoredPlans(resolution_strategies, decisions, context, slos)
       IN  /\ agent_decisions' = decisions
           /\ context' = scored.current_state
           /\ IF scored.exception # "none"
              THEN /\ pc' = "ZeroDivisionError"
                   /\ decision_plans' = <<>>
              ELSE /\ pc' = "returned"
                   /\ decision_plans' =
                          _add_execution_recommendations(
                              SortByScore(scored.decision_plans))
    /\ UNCHANGED <<agent_results, slos, resolution_strategies, evaluation, resolution>>
    /\ UNCHANGED engineVars
    /\ UNCHANGED limiterVars

\* ------------------------------------------------------------------------
\* Inputs and specifications of the SLO evaluation and of a coordination round
\* ------------------------------------------------------------------------
\* SLOs as create_default_slos makes them, and SLOs of a metric that has no
\* evaluation function.
TemperatureComfortSLO ==
    [name |-> "Temperature Comfort", metric |-> "temperature_comfort", target_value |-> 230,
     weight |-> 250, active |-> TRUE, config |-> {<<"min_temp", 220>>, <<"max_temp", 240>>}]

SecurityLightingSLO ==
    [name |-> "Security Lighting", metric |-> "security_lighting", target_value |-> 1,
     weight |-> 150, active |-> TRUE, config |-> {<<"min_lights", 1>>}]

HumidityControlSLO ==
    [name |-> "Humidity Control", metric |-> "humidity_control", target_value |-> 50,
     weight |-> 100, active |-> TRUE, config |-> {<<"min_humidity", 40>>, <<"max_humidity", 60>>}]

SloCatalogue ==
    {TemperatureComfortSLO, SecurityLightingSLO, HumidityControlSLO,
     [HumidityControlSLO EXCEPT !.active = FALSE],
     [name |-> "Noise", metric |-> "noise_level", target_value |-> 10,
      weight |-> 1000, active |-> TRUE, config |-> {}],
     [name |-> "Silence", metric |-> "noise_level", target_value |-> 0,
      weight |-> 0, active |-> TRUE, config |-> {}]}

\* Sensor data: each key missing or with one of a few values, negative ones
\* among them.
SensorReadings ==
    {t \cup n \cup h :
        t \in {{}, {<<"temperature", -50>>}, {<<"temperature", 235>>}, {<<"temperature", 300>>}},
        n \in {{}, {<<"noise_level", -5>>}, {<<"noise_level", 5>>}, {<<"noise_level", 20>>}},
        h \in {{}, {<<"humidity", 90>>}}}

Light(status) == [id |-> "light_1", type |-> "Lighting", status |-> status]
Hvac(status) == [id |-> "hvac_1", type |-> "HVAC", status |-> status]

DeviceLists == {<<>>, <<Light("OFF")>>, <<Light("ON")>>, <<Light("OFF"), Hvac("ON")>>}

\* evaluate_slos is called on the room's state and the SLO list.
EvaluateSlos ==
    /\ pc = "idle"
    /\ evaluation' = <<evaluate_slos(context.room_data, context.sensor_data,
                                     context.devices, slos)>>
    /\ UNCHANGED <<context, slos, agent_results, resolution_strategies, decision_plans, pc>>
    /\ UNCHANGED resolverVars
    /\ UNCHANGED engineVars
    /\ UNCHANGED limiterVars

SloInit ==
    /\ context \in [room_data : {{}}, sensor_data : SensorReadings, devices : DeviceLists]
    /\ slos \in SeqsUpTo(SloCatalogue, MaxSlos)
    /\ evaluation = <<>>
    /\ agent_results = <<>>
    /\ resolution_strategies = <<>>
    /\ decision_plans = <<>>
    /\ pc = "idle"
    /\ agent_decisions = <<>>
    /\ resolution = [strategy |-> "none", resolved_actions |-> <<>>, conflicts |-> <<>>]
    /\ plans = <<>>
    /\ active_executions = <<>>
    /\ execution_history = <<>>
    /\ runs = <<>>
    /\ nRuns = 0
    /\ device_calls = <<>>
    /\ lastCall = "none"
    /\ LimiterIdle

SloNext == EvaluateSlos

SloSpec == SloInit /\ [][SloNext]_vars

\* A call coordinate_decisions(context, slos, resolution_strategies) that has
\* created the agents' tasks: a room with the light off and the HVAC on,
\* with no SLO or two of the default ones, and at most MaxStrategies
\* strategies.
CoordinatorInit ==
    /\ context = [room_data |-> {},
                  sensor_data |-> {<<"temperature", 235>>, <<"occupancy", 1>>},
                  devices |-> <<Light("OFF"), Hvac("ON")>>]
    /\ slos \in {<<>>, <<SecurityLightingSLO, TemperatureComfortSLO>>}
    /\ resolution_strategies \in SeqsUpTo(Strategies, MaxStrategies)
    /\ evaluation = <<>>
    /\ agent_results = <<>>
    /\ decision_plans = <<>>
    /\ pc = "collecting"
    /\ agent_decisions = <<>>
    /\ resolution = [strategy |-> "none", resolved_actions |-> <<>>, conflicts |-> <<>>]
    /\ plans = <<>>
    /\ active_executions = <<>>
    /\ execution_history = <<>>
    /\ runs = <<>>
    /\ nRuns = 0
    /\ device_calls = <<>>
    /\ lastCall = "none"
    /\ LimiterIdle

CoordinatorNext == make_decision \/ coordinate_decisions

CoordinatorSpec == CoordinatorInit /\ [][CoordinatorNext]_vars

\* ------------------------------------------------------------------------
\* The agents and GeminiLLMClient
\* ------------------------------------------------------------------------
\* An action of a decision is modelled by its device_id and its action; a
\* scores dict and a confidence are in thousandths; a missing key of a
\* decision dict is <<>>, a present one <<value>>.
DevicesOfType(devices, type) == SelectSeq(devices, LAMBDA d : d.type = type)

\* One action of the given name for each device of a list, in list order.
ActionOnEach(devices, action) ==
    [i \in DOMAIN devices |-> [device_id |-> devices[i].id, action |-> action]]

\* 'security' in slo.get('name', '').lower(), on the SLO names of the model.
NamesSecurity(slo) == slo.name \in {"Security Lighting"}

\* 'meeting' in name.lower() or 'conference' in name.lower(), on the SLO
\* names of the model.
NamesMeeting(slo) == slo.name \in {"Meeting Room Comfort"}

Scores(comfort, energy, reliability, security) ==
    {<<"comfort", comfort>>, <<"energy", energy>>,
     <<"reliability", reliability>>, <<"security", security>>}

\* SecurityAgent._make_fallback_decision
Security_make_fallback_decision(ctx, slo_list) ==
    LET lighting_devices == DevicesOfType(ctx.devices, "Lighting")
        security_devices == DevicesOfType(ctx.devices, "Security")
        security_slos == SelectSeq(slo_list, NamesSecurity)
        lights_on == SelectSeq(lighting_devices, LAMBDA d : d.status = "ON")
        light == IF security_slos # <<>> /\ lighting_devices # <<>> /\ lights_on = <<>>
                 THEN <<[device_id |-> lighting_devices[1].id, action |-> "turn_on"]>>
                 ELSE <<>>
    IN  [decisions |-> light \o ActionOnEach(SelectSeq(security_devices,
                                                       LAMBDA d : d.status = "OFF"), "turn_on"),
         scores |-> <<Scores(200, 100, 900, 1000)>>,
         confidence |-> <<700>>]

\* EmergencyAgent._make_fallback_decision
Emergency_make_fallback_decision(ctx) ==
    LET co2_level == Get(ctx.sensor_data, "co2", 0)
    IN  [decisions |-> IF co2_level > 1000
                       THEN ActionOnEach(DevicesOfType(ctx.devices, "HVAC"),
                                         "emergency_ventilation")
                       ELSE <<>>,
         scores |-> <<Scores(300, 200, 1000, 900)>>,
         confidence |-> <<900>>]

\* EnvironmentalAgent._make_fallback_decision
Environmental_make_fallback_decision(ctx) ==
    LET humidity == Get(ctx.sensor_data, "humidity", 50)
        co2_level == Get(ctx.sensor_data, "co2", 400)
        hvac_devices == DevicesOfType(ctx.devices, "HVAC")
    IN  [decisions |->
             (IF humidity > 70 THEN ActionOnEach(hvac_devices, "dehumidify")
              ELSE IF humidity < 30 THEN ActionOnEach(hvac_devices, "humidify")
              ELSE <<>>)
             \o (IF co2_level > 800 THEN ActionOnEach(hvac_devices, "increase_ventilation")
                 ELSE <<>>),
         scores |-> <<Scores(800, 500, 700, 300)>>,
         confidence |-> <<700>>]

\* OccupancyAgent._make_fallback_decision
Occupancy_make_fallback_decision(ctx) ==
    LET occupancy == Get(ctx.sensor_data, "occupancy", 0)
        lighting_devices == DevicesOfType(ctx.devices, "Lighting")
        hvac_devices == DevicesOfType(ctx.devices, "HVAC")
        security_devices == DevicesOfType(ctx.devices, "Security")
        lights_on == SelectSeq(lighting_devices, LAMBDA d : d.status = "ON")
    IN  [decisions |->
             (IF occupancy = 0 THEN ActionOnEach(lights_on, "dim")
              ELSE IF occupancy > 5 THEN ActionOnEach(hvac_devices, "increase_ventilation")
              ELSE <<>>)
             \o (IF lights_on = <<>> /\ lighting_devices # <<>>
                 THEN <<[device_id |-> lighting_devices[1].id, action |-> "turn_on"]>>
                 ELSE <<>>)
             \o ActionOnEach(SelectSeq(security_devices, LAMBDA d : d.status # "ON"),
                             "turn_on"),
         scores |-> <<Scores(700, 800, 600, 500)>>,
         confidence |-> <<700>>]

\* ComfortAgent._make_fallback_decision: the decision dict has no
\* "confidence" key.
Comfort_make_fallback_decision(ctx, slo_list) ==
    LET hvac_devices == DevicesOfType(ctx.devices, "HVAC")
        airflow_devices == DevicesOfType(ctx.devices, "AirFlow")
        current_temp == Get(ctx.sensor_data, "temperature", 220)
        target_temp == IF SelectSeq(slo_list, NamesMeeting) # <<>> THEN 220 ELSE 230
        temp_tolerance == 10
        occupancy == Get(ctx.sensor_data, "occupancy", 0)
    IN  [decisions |->
             (IF current_temp < target_temp - temp_tolerance
                 \/ current_temp > target_temp + temp_tolerance
              THEN ActionOnEach(hvac_devices, "turn_on")
              ELSE <<>>)
             \o (IF occupancy > 0
                 THEN ActionOnEach(SelectSeq(airflow_devices, LAMBDA d : d.status # "ON"),
                                   "turn_on")
                 ELSE <<>>),
         scores |-> <<Scores(1000, 400, 700, 300)>>,
         confidence |-> <<>>]

\* EnergyAgent._make_fallback_decision: the decision dict has no
\* "confidence" key; current_hour is datetime.now().hour.
Energy_make_fallback_decision(ctx, current_hour) ==
    LET devices == ctx.devices
        occupancy == Get(ctx.sensor_data, "occupancy", 0)
        lights_on == SelectSeq(devices, LAMBDA d : d.type = "Lighting" /\ d.status = "ON")
        unneeded == SelectSeq(devices, LAMBDA d :
                        /\ d.status = "ON"
                        /\ \/ d.type = "Lighting" /\ Len(lights_on) > 1
                           \/ d.type = "AirFlow")
        hvac_on == SelectSeq(devices, LAMBDA d : d.type = "HVAC" /\ d.status = "ON")
    IN  [decisions |->
             (IF occupancy = 0 THEN ActionOnEach(unneeded, "turn_off") ELSE <<>>)
             \o (IF (current_hour >= 22 \/ current_hour <= 6) /\ occupancy = 0
                 THEN ActionOnEach(hvac_on, "turn_off")
                 ELSE <<>>),
         scores |-> <<Scores(300, 1000, 600, 400)>>,
         confidence |-> <<>>]

\* _make_fallback_decision of agent k of self.agents.
_make_fallback_decision(k, ctx, slo_list, current_hour) ==
    CASE agents[k].name = "security" -> Security_make_fallback_decision(ctx, slo_list)
      [] agents[k].name = "comfort" -> Comfort_make_fallback_decision(ctx, slo_list)
      [] agents[k].name = "energy" -> Energy_make_fallback_decision(ctx, current_hour)
      [] agents[k].name = "emergency" -> Emergency_make_fallback_decision(ctx)
      [] agents[k].name = "environmental" -> Environmental_make_fallback_decision(ctx)
      [] agents[k].name = "occupancy" -> Occupancy_make_fallback_decision(ctx)

\* GeminiLLMClient._fallback_decision: one action on the device "system".
_fallback_decision ==
    [decisions |-> <<[device_id |-> "system", action |-> "maintain_current_state"]>>,
     scores |-> <<Scores(500, 500, 800, 700)>>,
     confidence |-> <<300>>]

\* GeminiLLMClient._parse_response: text that is not JSON gives the
\* client's fallback decision; in a parsed reply the missing fields get
\* their defaults, a score outside [0,1] becomes 0.5 and a confidence
\* outside [0,1] becomes 0.8.
_parse_response(response) ==
    IF response.kind = "bad_json" THEN _fallback_decision
    ELSE LET reply == response.reply
             scores == IF reply.scores = <<>> THEN Scores(500, 500, 500, 500)
                       ELSE reply.scores[1]
             confidence == IF reply.confidence = <<>> THEN 500 ELSE reply.confidence[1]
         IN  [decisions |-> reply.decisions,
              scores |-> <<{<<kv[1], IF kv[2] \in 0..1000 THEN kv[2] ELSE 500>> : kv \in scores}>>,
              confidence |-> <<IF confidence \in 0..1000 THEN confidence ELSE 800>>]

\* GeminiLLMClient.generate_decision: every exception of the call or of the
\* parsing ends in the client's fallback decision.
generate_decision(response) ==
    IF response.kind = "api_error" THEN _fallback_decision
    ELSE _parse_response(response)

\* The default scores of _make_llm_decision of agent k.
DefaultScores(k) ==
    CASE agents[k].name = "security" -> Scores(200, 100, 900, 1000)
      [] agents[k].name = "comfort" -> Scores(1000, 300, 700, 200)
      [] agents[k].name = "energy" -> Scores(300, 1000, 600, 400)
      [] agents[k].name = "emergency" -> Scores(300, 200, 1000, 900)
      [] agents[k].name = "environmental" -> Scores(800, 500, 700, 300)
      [] agents[k].name = "occupancy" -> Scores(700, 800, 600, 500)

\* _make_llm_decision of agent k: the reply of generate_decision with the
\* agent's defaults for missing keys; the agent's own fallback decision when
\* loading the prompt or the call raises.
_make_llm_decision(k, ctx, slo_list, current_hour, response) ==
    IF response.kind = "prompt_error"
    THEN _make_fallback_decision(k, ctx, slo_list, current_hour)
    ELSE LET llm_response == generate_decision(response)
         IN  [decisions |-> llm_response.decisions,
              scores |-> IF llm_response.scores = <<>> THEN <<DefaultScores(k)>>
                         ELSE llm_response.scores,
              confidence |-> IF llm_response.confidence = <<>> THEN <<800>>
                             ELSE llm_response.confidence]

\* What the remote source does in a call: it is absent (no client or no API
\* key), the prompt cannot be read, the API call raises, the reply is not
\* JSON, or it is one of three JSON replies: a complete one, one without
\* scores and confidence, one with values outside [0,1].
Responses ==
    {[kind |-> "absent", reply |-> <<>>],
     [kind |-> "prompt_error", reply |-> <<>>],
     [kind |-> "api_error", reply |-> <<>>],
     [kind |-> "bad_json", reply |-> <<>>],
     [kind |-> "reply",
      reply |-> [decisions |-> <<[device_id |-> "light_1", action |-> "turn_on"]>>,
                 scores |-> <<Scores(800, 700, 900, 800)>>, confidence |-> <<850>>]],
     [kind |-> "reply",
      reply |-> [decisions |-> <<>>, scores |-> <<>>, confidence |-> <<>>]],
     [kind |-> "reply",
      reply |-> [decisions |-> <<[device_id |-> "hvac_1", action |-> "turn_off"]>>,
                 scores |-> <<Scores(2000, 700, -100, 800)>>, confidence |-> <<1500>>]]}

Hours == {3, 12}

\* make_decision of agent k is called on the context and returns: the LLM
\* decision if the client exists and the API key is set, the fallback
\* decision otherwise.  The entry of agent_results records the call with
\* what the source did and the hour of the clock.
agent_make_decision(k) ==
    /\ pc = "deciding"
    /\ agent_results = <<>>
    /\ \E response \in Responses, current_hour \in Hours :
          LET made == IF response.kind = "absent"
                      THEN _make_fallback_decision(k, context, slos, current_hour)
                      ELSE _make_llm_decision(k, context, slos, current_hour, response)
          IN  agent_results' =
                  <<[raised |-> FALSE,
                     agent |-> k,
                     response |-> response,
                     current_hour |-> current_hour,
                     decision |-> <<[agent_id |-> agents[k].name \o "_agent",
                                     agent_type |-> agents[k].agent_type,
                                     priority |-> agents[k].priority,
                                     decisions |-> made.decisions,
                                     scores |-> made.scores,
                                     confidence |-> made.confidence]>>]>>
    /\ pc' = "decided"
    /\ UNCHANGED <<agent_decisions, decision_plans, context, slos,
                   resolution_strategies, evaluation, resolution>>
    /\ UNCHANGED engineVars
    /\ UNCHANGED limiterVars

Camera(status) == [id |-> "camera_1", type |-> "Security", status |-> status]
Fan(status) == [id |-> "fan_1", type |-> "AirFlow", status |-> status]

\* Device lists of a room: lights, an HVAC, a camera and a fan, on or off.
AgentDeviceLists ==
    {<<>>,
     <<Light("OFF"), Hvac("ON")>>,
     <<Light("ON"), Light("ON"), Hvac("ON"), Fan("ON")>>,
     <<Light("OFF"), Hvac("OFF"), Camera("OFF"), Fan("OFF")>>}

\* Sensor data: each key missing or with a value on either side of the
\* agents' thresholds.
AgentSensorReadings ==
    {t \cup o \cup h \cup c :
        t \in {{}, {<<"temperature", 235>>}, {<<"temperature", 360>>}},
        o \in {{}, {<<"occupancy", 0>>}, {<<"occupancy", 3>>}, {<<"occupancy", 8>>}},
        h \in {{}, {<<"humidity", 20>>}, {<<"humidity", 80>>}},
        c \in {{}, {<<"co2", 900>>}, {<<"co2", 1200>>}}}

MeetingRoomSLO ==
    [name |-> "Meeting Room Comfort", metric |-> "temperature_comfort", target_value |-> 220,
     weight |-> 250, active |-> TRUE, config |-> {<<"min_temp", 210>>, <<"max_temp", 230>>}]

\* An agent is about to be asked for its decision on a context.
AgentInit ==
    /\ context \in [room_data : {{}}, sensor_data : AgentSensorReadings,
                    devices : AgentDeviceLists]
    /\ slos \in {<<>>, <<SecurityLightingSLO, TemperatureComfortSLO>>, <<MeetingRoomSLO>>}
    /\ evaluation = <<>>
    /\ agent_results = <<>>
    /\ resolution_strategies = <<>>
    /\ decision_plans = <<>>
    /\ pc = "deciding"
    /\ agent_decisions = <<>>
    /\ resolution = [strategy |-> "none", resolved_actions |-> <<>>, conflicts |-> <<>>]
    /\ plans = <<>>
    /\ active_executions = <<>>
    /\ execution_history = <<>>
    /\ runs = <<>>
    /\ nRuns = 0
    /\ device_calls = <<>>
    /\ lastCall = "none"
    /\ LimiterIdle

AgentNext == \E k \in DOMAIN agents : agent_make_decision(k)

AgentSpec == AgentInit /\ [][AgentNext]_vars

\* ------------------------------------------------------------------------
\* LLMRateLimiter
\* ------------------------------------------------------------------------
\* Time is counted in ticks; the limiter is constructed with max_calls and
\* a period of that many ticks.
max_calls == MaxCalls
period == Period

\* The inner while loop of acquire: timestamps are popped from the left as
\* long as now - timestamp >= period.
RECURSIVE PopExpired(_)
PopExpired(timestamps) ==
    IF timestamps # <<>> /\ Head(timestamps) >= period
    THEN PopExpired(Tail(timestamps))
    ELSE timestamps

\* The test of acquire with the limit itself still leaving room.
WeCanProceed_AtLimit(timestamps) == Len(timestamps) <= max_calls

\* The test len(self._timestamps) < self.max_calls of acquire.
WeCanProceed(timestamps) == Len(timestamps) < max_calls

\* A coroutine calls acquire(); it runs when the event loop gets to it.
CallAcquire(c) ==
    /\ callers[c].pc = "idle"
    /\ callers' = [callers EXCEPT ![c] = [pc |-> "ready", sleep_for |-> 0]]
    /\ UNCHANGED <<_timestamps, admitted>>
    /\ UNCHANGED <<engineVars, resolverVars, coordinatorVars>>

\* One iteration of the loop of acquire, which runs without suspension from
\* reading the clock to the return or to the sleep: the expired timestamps
\* are popped; with room left the timestamp is appended and acquire returns,
\* otherwise the caller sleeps until the oldest timestamp leaves the window
\* (0.1 s, here a tick, if that time is not positive).  With max_calls = 0
\* the read of self._timestamps[0] raises IndexError.
acquire(c) ==
    /\ \/ callers[c].pc = "ready"
       \/ callers[c].pc = "sleeping" /\ callers[c].sleep_for = 0
    /\ LET timestamps == PopExpired(_timestamps)
       IN  IF WeCanProceed(timestamps)
           THEN /\ _timestamps' = Append(timestamps, 0)
                /\ admitted' = Append(admitted, 0)
                /\ callers' = [callers EXCEPT ![c] = [pc |-> "idle", sleep_for |-> 0]]
           ELSE /\ _timestamps' = timestamps
                /\ UNCHANGED admitted
                /\ IF timestamps = <<>>
                   THEN callers' = [callers EXCEPT ![c] = [pc |-> "IndexError", sleep_for |-> 0]]
                   ELSE LET oldest == timestamps[1]
                            sleep_for == period - oldest
                        IN  callers' = [callers EXCEPT ![c] =
                                [pc |-> "sleeping",
                                 sleep_for |-> IF sleep_for > 0 THEN sleep_for ELSE 1]]
    /\ UNCHANGED <<engineVars, resolverVars, coordinatorVars>>

\* time.monotonic() advances by a tick: every timestamp is a tick older,
\* every sleep a tick shorter.
Tick ==
    /\ _timestamps' = [i \in DOMAIN _timestamps |-> Min(period, _timestamps[i] + 1)]
    /\ callers' = [c \in Callers |->
                      [callers[c] EXCEPT !.sleep_for = Max(0, callers[c].sleep_for - 1)]]
    /\ admitted' = LET older == [i \in DOMAIN admitted |-> admitted[i] + 1]
                   IN  SelectSeq(older, LAMBDA age : age < period)
    /\ UNCHANGED <<engineVars, resolverVars, coordinatorVars>>

\* A limiter nobody has called yet.
RateLimiterInit ==
    /\ LimiterIdle
    /\ CoordinatorIdle
    /\ agent_decisions = <<>>
    /\ resolution = [strategy |-> "none", resolved_actions |-> <<>>, conflicts |-> <<>>]
    /\ plans = <<>>
    /\ active_executions = <<>>
    /\ execution_history = <<>>
    /\ runs = <<>>
    /\ nRuns = 0
    /\ device_calls = <<>>
    /\ lastCall = "none"

RateLimiterNext ==
    \/ \E c \in Callers : CallAcquire(c)
    \/ \E c \in Callers : acquire(c)
    \/ Tick

RateLimiterSpec == RateLimiterInit /\ [][RateLimiterNext]_vars

\* Time advances, and the event loop runs every coroutine that is ready or
\* whose sleep is over.
RateLimiterFairSpec ==
    /\ RateLimiterSpec
    /\ WF_vars(Tick)
    /\ \A c \in Callers : WF_vars(acquire(c))

\* ------------------------------------------------------------------------
\* State functions used by the properties
\* ------------------------------------------------------------------------
InRegistry(p) ==
    /\ plans[p].plan_id \in DOMAIN active_executions
    /\ active_executions[plans[p].plan_id] = p

InHistory(p) == \E i \in DOMAIN execution_history : execution_history[i] = p

NoDeviceCall(p) == \A a \in DOMAIN device_calls[p] : device_calls[p][a].calls = 0

AwaitsApproval(p) == plans[p].approval_required /\ ~plans[p].approved

\* A device-controller call is in flight for every task suspended in it.
RECURSIVE InFlightIn(_)
InFlightIn(rs) ==
    IF rs = <<>> THEN 0
    ELSE CountIn(Head(rs).tasks, {"call"}) + InFlightIn(Tail(rs))

InFlightCalls == InFlightIn(runs)

CancelledStaysCancelled ==
    [][/\ \A id \in PlanIds :
            (/\ cancel_execution(id)
             /\ id \in DOMAIN active_executions
             /\ plans[active_executions[id]].status = IN_PROGRESS)
                => (/\ lastCall' = "True"
                    /\ plans'[active_executions[id]].status = CANCELLED)
       /\ \A p \in DOMAIN plans :
            plans[p].status = CANCELLED => plans'[p].status = CANCELLED]_vars

\* ------------------------------------------------------------------------
\* C3  Plan outcome rule
\* ------------------------------------------------------------------------
\* The step in which an invocation of _execute_plan_actions for plan p
\* reaches its end: gather() returned in a suspended run, or the plan has no
\* action and the invocation ran through without suspension.
ExecutionFinishes(p) ==
    \/ \E r \in DOMAIN runs : runs[r].plan = p /\ FinishExecution(r)
    \/ /\ nRuns' = nRuns + 1
       /\ runs' = runs
       /\ execution_history' = Append(execution_history, p)

\* C3: when the execution of a plan finishes its status is FAILED exactly
\* when it has at least one action and every action result is FAILED, and
\* COMPLETED otherwise (no failed result, or some but not all failed).
PlanOutcomeRule ==
    [][\A p \in DOMAIN plans' :
          ExecutionFinishes(p) =>
              LET results == plans'[p].action_results
                  allFailed == /\ Len(results) >= 1
                               /\ \A a \in DOMAIN results : results[a].status = FAILED
              IN  /\ allFailed => plans'[p].status = FAILED
                  /\ ~allFailed => plans'[p].status = COMPLETED]_vars

\* A plan finished with one action failed and one completed: partial success.
PlanOutcomeWitness ==
    \E p \in DOMAIN plans :
        /\ plans[p].status = COMPLETED
        /\ InHistory(p)
        /\ \E a, b \in DOMAIN plans[p].action_results :
              /\ plans[p].action_results[a].status = FAILED
              /\ plans[p].action_results[b].status = COMPLETED

\* ------------------------------------------------------------------------
\* C4  Cancelling a pending plan
\* ------------------------------------------------------------------------
\* C4: cancel_execution on a plan that is PENDING in the registry returns
\* True, sets the status CANCELLED, removes the plan id from the registry and
\* appends the plan to the history; a cancel_execution for a plan id that is
\* not in the registry, as after that first cancel, returns False and
\* changes nothing.
CancelPending ==
    [][\A id \in PlanIds :
          cancel_execution(id) =>
              IF id \in DOMAIN active_executions
              THEN plans[active_executions[id]].status = PENDING =>
                       /\ lastCall' = "True"
                       /\ plans'[active_executions[id]].status = CANCELLED
                       /\ id \notin DOMAIN active_executions'
                       /\ execution_history' = Append(execution_history, active_executions[id])
              ELSE /\ lastCall' = "False"
                   /\ UNCHANGED <<plans, active_executions, execution_history,
                                  runs, nRuns, device_calls>>]_vars

\* A pending plan was cancelled and a further cancel returned False.
CancelPendingWitness ==
    /\ lastCall = "False"
    /\ \E p \in DOMAIN plans :
          /\ ~plans[p].approved
          /\ plans[p].status = CANCELLED
          /\ plans[p].plan_id \notin DOMAIN active_executions
          /\ execution_history = <<p>>

\* ------------------------------------------------------------------------
\* C5  Where an execution plan lives
\* ------------------------------------------------------------------------
\* C5: a plan submitted in any mode is in the registry under its plan id
\* until it is terminal; a terminal plan is absent from the registry and
\* present in the history.
PlanLivesInRegistryThenHistory ==
    \A p \in DOMAIN plans :
        IF plans[p].status \in Terminal
        THEN ~InRegistry(p) /\ InHistory(p)
        ELSE InRegistry(p)

\* ------------------------------------------------------------------------
\* C6  Concurrency ceiling
\* ------------------------------------------------------------------------
\* C6: the engine never has more than max_parallel_executions
\* device-controller calls in flight, whatever the number of actions of a
\* plan and the number of plans executing at the same time.
ConcurrencyCeiling == InFlightCalls <= max_parallel_executions

\* ------------------------------------------------------------------------
\* C7  Failure isolation
\* ------------------------------------------------------------------------
\* C7: a failed device-controller call makes only that action's result
\* FAILED, with an error message, and when the execution of the plan
\* finishes every action result is COMPLETED or FAILED.
FailureIsolation ==
    [][/\ \A r \in DOMAIN runs : \A a \in DOMAIN runs[r].tasks :
            CompleteAction(r, a, FALSE) =>
                LET p == runs[r].plan
                IN  /\ plans'[p].action_results[a].status = FAILED
                    /\ plans'[p].action_results[a].error_message
                    /\ \A b \in DOMAIN plans[p].action_results :
                          b # a => plans'[p].action_results[b] = plans[p].action_results[b]
                    /\ plans'[p].status = plans[p].status
       /\ \A p \in DOMAIN plans' :
            ExecutionFinishes(p) =>
                \A a \in DOMAIN plans'[p].action_results :
                    plans'[p].action_results[a].status \in {COMPLETED, FAILED}]_vars

\* ------------------------------------------------------------------------
\* C8  Execution completeness
\* ------------------------------------------------------------------------
\* An AUTO plan whose execution is over with every device call succeeded.
AutoFinishedAllSucceeded(p) ==
    /\ ~plans[p].approval_required
    /\ InHistory(p)
    /\ \A a \in DOMAIN device_calls[p] : ~device_calls[p][a].failed

\* C8 as stated: for every K >= 0 such a plan is COMPLETED, all its K
\* action results are COMPLETED and get_progress_percentage returns 100.
ExecutionCompletenessAnyK ==
    \A p \in DOMAIN plans :
        AutoFinishedAllSucceeded(p) =>
            /\ plans[p].status = COMPLETED
            /\ \A a \in DOMAIN plans[p].action_results :
                  plans[p].action_results[a].status = COMPLETED
            /\ get_progress_percentage(plans[p]) = 100

\* C8 amended: such a plan is COMPLETED and all its K action results are
\* COMPLETED; get_progress_percentage returns 100 when K >= 1 and 0 when
\* the plan has no action.
ExecutionCompleteness ==
    \A p \in DOMAIN plans :
        AutoFinishedAllSucceeded(p) =>
            /\ plans[p].status = COMPLETED
            /\ \A a \in DOMAIN plans[p].action_results :
                  plans[p].action_results[a].status = COMPLETED
            /\ get_progress_percentage(plans[p]) =
                  IF Len(plans[p].action_results) >= 1 THEN 100 ELSE 0

\* An AUTO plan with two actions was executed and both calls succeeded.
ExecutionCompletenessWitness ==
    \E p \in DOMAIN plans :
        /\ AutoFinishedAllSucceeded(p)
        /\ Len(plans[p].action_results) = 2
        /\ \A a \in DOMAIN device_calls[p] : device_calls[p][a].calls = 1

\* ------------------------------------------------------------------------
\* C9  Unknown or terminal plan id
\* ------------------------------------------------------------------------
\* No plan carries the id, or every plan that carries it is terminal.
UnknownOrTerminal(id) ==
    \A p \in DOMAIN plans : plans[p].plan_id = id => plans[p].status \in Terminal

\* C9: for such a plan id approve_and_execute_plan returns None and
\* cancel_execution returns False, and neither changes the registry, the
\* history or a plan, nor starts a device action.
UnknownOrTerminalPlanId ==
    [][\A id \in PlanIds :
          UnknownOrTerminal(id) =>
              /\ approve_and_execute_plan(id) =>
                     /\ lastCall' = "None"
                     /\ UNCHANGED <<plans, active_executions, execution_history,
                                    runs, nRuns, device_calls>>
              /\ cancel_execution(id) =>
                     /\ lastCall' = "False"
                     /\ UNCHANGED <<plans, active_executions, execution_history,
                                    runs, nRuns, device_calls>>]_vars

\* approve_and_execute_plan returned None when every plan id was unknown
\* or of a terminal plan, one of them terminal.
UnknownOrTerminalPlanIdWitness ==
    /\ lastCall = "None"
    /\ \A id \in PlanIds : UnknownOrTerminal(id)
    /\ \E p \in DOMAIN plans : plans[p].status \in Terminal

\* ------------------------------------------------------------------------
\* C10  Single proposer passes through
\* ------------------------------------------------------------------------
\* The proposals made on a device, as (decision, action) positions.
ProposalsOn(device_id) ==
    {ij \in (DOMAIN agent_decisions) \X (1..MaxProposals) :
        /\ ij[2] \in DOMAIN agent_decisions[ij[1]].decisions
        /\ agent_decisions[ij[1]].decisions[ij[2]].device_id = device_id}

\* The action of every device on which exactly one agent proposes exactly
\* one action is in the resolved actions.
SingleProposalsResolved ==
    \A d \in DeviceIds :
        Cardinality(ProposalsOn(d)) = 1 =>
            \E ij \in ProposalsOn(d) :
                agent_decisions[ij[1]].decisions[ij[2]] \in Range(resolution.resolved_actions)

ResolvedOn(device_id) ==
    SelectSeq(resolution.resolved_actions, LAMBDA act : act.device_id = device_id)

\* The decisions of the list that propose an action on a device.
ProposersOn(device_id) == {ij[1] : ij \in ProposalsOn(device_id)}

\* The first action that decision i proposes on a device.
FirstActionOn(i, device_id) ==
    SelectSeq(agent_decisions[i].decisions, LAMBDA act : act.device_id = device_id)[1]

\* The agent_type values the registered agents put in their decisions.
RegisteredAgentTypes ==
    {EMERGENCY_RESPONSE, SECURITY, ENVIRONMENTAL, COMFORT, OCCUPANCY, ENERGY_EFFICIENCY}

\* ------------------------------------------------------------------------
\* C11  energy_balance
\* ------------------------------------------------------------------------
\* C11: under energy_balance, with decisions as the registered agents
\* produce them (the energy agent's agent_type is "energy_efficiency"), every
\* action of every non-energy agent is in the resolved list, and on a device
\* on which a non-energy agent proposed the resolved list has no action of
\* the energy agent: it has as many actions on the device as the non-energy
\* agents proposed.
EnergyBalanceContract ==
    (/\ resolution.strategy = "energy_balance"
     /\ \A i \in DOMAIN agent_decisions :
           agent_decisions[i].agent_type \in RegisteredAgentTypes)
        => \A d \in DeviceIds :
              LET others == {ij \in ProposalsOn(d) :
                                agent_decisions[ij[1]].agent_type # ENERGY_EFFICIENCY}
              IN  /\ \A ij \in others :
                        agent_decisions[ij[1]].decisions[ij[2]]
                            \in Range(resolution.resolved_actions)
                  /\ others # {} => Len(ResolvedOn(d)) = Cardinality(others)

\* ------------------------------------------------------------------------
\* C12  majority_vote
\* ------------------------------------------------------------------------
\* C12: under majority_vote a (device id, action verb) pair is in the
\* resolved list if and only if at least 2 distinct agent decisions of the
\* list propose it; a pair that a single agent proposes, even twice, is
\* dropped.
MajorityVoteDistinctAgents ==
    resolution.strategy = "majority_vote" =>
        \A act \in DeviceActions :
            act \in Range(resolution.resolved_actions)
                <=> Cardinality({i \in DOMAIN agent_decisions :
                                    act \in Range(agent_decisions[i].decisions)}) >= 2

\* ------------------------------------------------------------------------
\* C13  safety_first precedence
\* ------------------------------------------------------------------------
\* C13: under safety_first, for every device on which decisions propose, the
\* resolved list has exactly one action on the device, and it is the action
\* of a proposing decision whose category comes first in emergency >
\* security > environmental > comfort > occupancy > energy-efficiency
\* (unknown categories last) among the proposers, wherever the decisions
\* are in the input list; every other action on the device is discarded.
SafetyFirstPrecedence ==
    resolution.strategy = "safety_first" =>
        \A d \in DeviceIds :
            ProposersOn(d) # {} =>
                /\ Len(ResolvedOn(d)) = 1
                /\ \E i \in ProposersOn(d) :
                      /\ \A j \in ProposersOn(d) :
                            _priority_key(agent_decisions[i]) <= _priority_key(agent_decisions[j])
                      /\ ResolvedOn(d)[1] = FirstActionOn(i, d)

\* A comfort decision comes before an emergency decision in the list, they
\* propose different actions on light_1, and the emergency one is resolved.
SafetyFirstPrecedenceWitness ==
    /\ resolution.strategy = "safety_first"
    /\ Len(agent_decisions) = 2
    /\ agent_decisions[1].agent_type = COMFORT
    /\ agent_decisions[2].agent_type = EMERGENCY_RESPONSE
    /\ ProposersOn("light_1") = {1, 2}
    /\ FirstActionOn(1, "light_1") # FirstActionOn(2, "light_1")
    /\ ResolvedOn("light_1") = <<FirstActionOn(2, "light_1")>>

\* ------------------------------------------------------------------------
\* C14  priority_weighted winner
\* ------------------------------------------------------------------------
\* C14: under priority_weighted, for every device with two or more proposed
\* actions the resolved list has exactly one action on the device, and it is
\* the action of a proposing decision of the highest priority weight.
PriorityWeightedWinner ==
    resolution.strategy = "priority_weighted" =>
        \A d \in DeviceIds :
            Cardinality(ProposalsOn(d)) >= 2 =>
                /\ Len(ResolvedOn(d)) = 1
                /\ \E ij \in ProposalsOn(d) :
                      /\ \A kl \in ProposalsOn(d) :
                            agent_decisions[kl[1]].priority <= agent_decisions[ij[1]].priority
                      /\ ResolvedOn(d)[1] = agent_decisions[ij[1]].decisions[ij[2]]

\* A decision of priority 0.6 comes before one of priority 1.0, they propose
\* different actions on hvac_1, and the action of the second is resolved.
PriorityWeightedWinnerWitness ==
    /\ resolution.strategy = "priority_weighted"
    /\ Len(agent_decisions) = 2
    /\ agent_decisions[1].priority = 6
    /\ agent_decisions[2].priority = 10
    /\ ProposersOn("hvac_1") = {1, 2}
    /\ FirstActionOn(1, "hvac_1") # FirstActionOn(2, "hvac_1")
    /\ ResolvedOn("hvac_1") = <<FirstActionOn(2, "hvac_1")>>

\* ------------------------------------------------------------------------
\* State functions on a coordination round
\* ------------------------------------------------------------------------
\* The call of coordinate_decisions is over: it returned or it raised.
RoundOver == pc \notin {"idle", "collecting"}

\* The agents that raised in make_decision, and those that returned.
FailedAgents == {k \in DOMAIN agent_results : agent_results[k].raised}
SucceededAgents == {k \in DOMAIN agent_results : ~agent_results[k].raised}

\* The bijections between the positions of the returned plans and those of
\* the requested strategies under which every plan is the plan of its
\* strategy.
PlanOrders ==
    {f \in [DOMAIN decision_plans -> DOMAIN resolution_strategies] :
        /\ \A i, j \in DOMAIN decision_plans : i # j => f[i] # f[j]
        /\ \A i \in DOMAIN decision_plans :
              decision_plans[i].metadata.resolution_strategy = resolution_strategies[f[i]]}

\* The returned plans are one per requested strategy, by score non-increasing
\* with equal scores in the order of the request, and each carries its
\* 1-based rank and the number of plans.
Ranked ==
    /\ Len(decision_plans) = Len(resolution_strategies)
    /\ \E f \in PlanOrders :
          \A i, j \in DOMAIN decision_plans :
              i < j => \/ decision_plans[i].score > decision_plans[j].score
                       \/ /\ decision_plans[i].score = decision_plans[j].score
                          /\ f[i] < f[j]
    /\ \A i \in DOMAIN decision_plans :
          /\ decision_plans[i].metadata.rank = i
          /\ decision_plans[i].metadata.total_plans = Len(resolution_strategies)

\* ------------------------------------------------------------------------
\* C15  Plan ranking
\* ------------------------------------------------------------------------
\* C15: coordinate_decisions called with N strategies returns exactly N
\* plans, one per requested strategy, by score non-increasing, plans of equal
\* score in the order their strategies were requested, each with metadata
\* rank equal to its 1-based position and total_plans equal to N.
PlanRanking == RoundOver => (pc = "returned" /\ Ranked)

\* ------------------------------------------------------------------------
\* C16  No agent responds
\* ------------------------------------------------------------------------
\* C16: when every agent fails, coordinate_decisions returns normally with
\* one plan per requested strategy, each with no action, confidence 0 and
\* execution recommendation MANUAL.
NoAgentResponds ==
    (RoundOver /\ SucceededAgents = {}) =>
        /\ pc = "returned"
        /\ Len(decision_plans) = Len(resolution_strategies)
        /\ \A i \in DOMAIN decision_plans :
              /\ decision_plans[i].actions = <<>>
              /\ decision_plans[i].confidence = 0
              /\ decision_plans[i].metadata.execution_recommendation = "MANUAL"

\* ------------------------------------------------------------------------
\* C17  Agent failure is tolerated
\* ------------------------------------------------------------------------
\* C17: when some but not all agents raise in make_decision,
\* coordinate_decisions completes with one plan per strategy; the
\* agent_decisions of every plan are exactly the decisions of the agents
\* that succeeded (none of a failed agent, all of the others, the same in
\* every plan) and every action of a plan is an action one of them proposed.
AgentFailureTolerated ==
    (RoundOver /\ FailedAgents # {} /\ SucceededAgents # {}) =>
        /\ pc = "returned"
        /\ Len(decision_plans) = Len(resolution_strategies)
        /\ \A i \in DOMAIN decision_plans :
              LET plan == decision_plans[i]
              IN  /\ {d.agent_id : d \in Range(plan.agent_decisions)}
                        = {agents[k].name : k \in SucceededAgents}
                  /\ Len(plan.agent_decisions) = Cardinality(SucceededAgents)
                  /\ \A k \in SucceededAgents :
                        agent_results[k].decision[1] \in Range(plan.agent_decisions)
                  /\ \A act \in Range(plan.actions) :
                        \E k \in SucceededAgents :
                            act \in Range(agent_results[k].decision[1].decisions)

\* The security and emergency agents raised, the comfort and energy agents
\* proposed actions that are in the plans of two strategies.
AgentFailureToleratedWitness ==
    /\ pc = "returned"
    /\ FailedAgents = {1, 4}
    /\ Len(decision_plans) = 2
    /\ \A i \in DOMAIN decision_plans : decision_plans[i].actions # <<>>

\* ------------------------------------------------------------------------
\* C18  Execution recommendation
\* ------------------------------------------------------------------------
\* C18: after coordinate_decisions every plan's execution_recommendation is
\* AUTO exactly when score >= 0.9 and confidence >= 0.85, REVIEW exactly
\* when it is not AUTO and score >= 0.7 and confidence >= 0.7, and MANUAL in
\* every other case.
ExecutionRecommendation ==
    \A i \in DOMAIN decision_plans :
        LET plan == decision_plans[i]
            auto == plan.score >= 900 /\ plan.confidence >= 850
            review == ~auto /\ plan.score >= 700 /\ plan.confidence >= 700
            recommendation == plan.metadata.execution_recommendation
        IN  /\ recommendation = "AUTO" <=> auto
            /\ recommendation = "REVIEW" <=> review
            /\ recommendation = "MANUAL" <=> (~auto /\ ~review)

\* A round returned two plans, one recommended AUTO and one REVIEW whose
\* score is at least 0.7 and under 0.9.
ExecutionRecommendationWitness ==
    /\ pc = "returned"
    /\ \E i, j \in DOMAIN decision_plans :
          /\ decision_plans[i].metadata.execution_recommendation = "AUTO"
          /\ decision_plans[j].metadata.execution_recommendation = "REVIEW"

\* ------------------------------------------------------------------------
\* C19  Score clamp
\* ------------------------------------------------------------------------
\* C19: for every plan score_decision_plan returns, and stores in
\* plan.score, a value in [0,1] equal to slo_score*0.7 + mean agent
\* confidence*0.3 - min(0.1, 0.02*number of actions), clamped to [0,1].
ScoreClamp ==
    /\ pc # "ZeroDivisionError"
    /\ \A i \in DOMAIN decision_plans :
          LET plan == decision_plans[i]
              slo_score == plan.slo_compliance[1].overall_compliance
              mean == SumSeq([k \in DOMAIN plan.agent_decisions |->
                                 ConfidenceOf(plan.agent_decisions[k])])
                          \div Len(plan.agent_decisions)
              composite == (slo_score * 7 + mean * 3) \div 10
                               - Min(100, 20 * Len(plan.actions))
          IN  /\ plan.score \in 0..1000
              /\ plan.score = Max(0, Min(1000, composite))

\* ------------------------------------------------------------------------
\* C20  Compliance bounds
\* ------------------------------------------------------------------------
\* C20: for every sensor data, device list and SLO list with weights in
\* [0,1], every per-SLO compliance_score and overall_compliance that
\* evaluate_slos returns are in [0,1], and with no active SLO
\* overall_compliance is 0.
ComplianceBounds ==
    \A e \in DOMAIN evaluation :
        /\ \A i \in DOMAIN evaluation[e].slo_results :
              evaluation[e].slo_results[i].compliance_score \in 0..1000
        /\ evaluation[e].overall_compliance \in 0..1000
        /\ (\A i \in DOMAIN slos : ~slos[i].active) => evaluation[e].overall_compliance = 0

\* ------------------------------------------------------------------------
\* C27  At most one dispatch per action
\* ------------------------------------------------------------------------
\* C27: for every execution plan the device controller is invoked at most
\* once for each of its actions, under every interleaving of execute_plan,
\* approve_and_execute_plan and cancel_execution; a second
\* approve_and_execute_plan while the first is executing does not execute
\* the actions again.
AtMostOneDispatch ==
    \A p \in DOMAIN plans :
        \A a \in DOMAIN device_calls[p] : device_calls[p][a].calls <= 1

\* ------------------------------------------------------------------------
\* C28  History has no duplicates
\* ------------------------------------------------------------------------
\* C28: the execution history contains each execution plan at most once.
HistoryNoDuplicates ==
    \A i, j \in DOMAIN execution_history :
        i # j => execution_history[i] # execution_history[j]

\* ------------------------------------------------------------------------
\* C29  A pending plan is never lost
\* ------------------------------------------------------------------------
\* get_pending_approvals: the plans of the registry that require approval
\* and are not approved.
get_pending_approvals ==
    {active_executions[id] : id \in
        {k \in DOMAIN active_executions :
            /\ plans[active_executions[k]].approval_required
            /\ ~plans[active_executions[k]].approved}}

\* C29: every plan submitted in a non-AUTO mode is listed by
\* get_pending_approvals, under its plan id in the registry, until it is
\* itself approved or cancelled, also when a later plan carries the same
\* plan id.
PendingNeverLost ==
    \A p \in DOMAIN plans :
        (AwaitsApproval(p) /\ plans[p].status = PENDING) =>
            (InRegistry(p) /\ p \in get_pending_approvals)

\* ------------------------------------------------------------------------
\* C30  One action per device
\* ------------------------------------------------------------------------
\* C30: for every list of agent decisions and each of the four strategies
\* the resolved action list contains at most one action for any device id,
\* also when one agent proposes two actions on the same device and when two
\* different actions on one device each receive two votes.
OneActionPerDevice ==
    resolution.strategy \in Strategies =>
        \A d \in DeviceIds : Len(ResolvedOn(d)) <= 1

\* ------------------------------------------------------------------------
\* C25  Order independence
\* ------------------------------------------------------------------------
\* The lists that hold the decisions of a list in another order.
PermutationsOf(decisions) ==
    {[i \in DOMAIN decisions |-> decisions[f[i]]] : f \in Permutations(DOMAIN decisions)}

\* The collected decisions are those of distinct registered agents.
FromRegisteredAgents ==
    /\ \A i \in DOMAIN agent_decisions : agent_decisions[i].agent_type \in RegisteredAgentTypes
    /\ \A i, j \in DOMAIN agent_decisions :
          i # j => agent_decisions[i].agent_type # agent_decisions[j].agent_type

\* Every permutation of the collected decisions is resolved to the same
\* actions on each device as the collected decisions were.
OrderIndependent ==
    \A perm \in PermutationsOf(agent_decisions) :
        \A d \in DeviceIds :
            SelectSeq(resolve_conflicts(perm, resolution.strategy).resolved_actions,
                      LAMBDA act : act.device_id = d) = ResolvedOn(d)

\* C25: for every list of decisions of the registered agents, with their
\* configured priority weights, and every permutation of the list,
\* priority_weighted yields the same resolved action for each device and so
\* does safety_first.
OrderIndependence ==
    (FromRegisteredAgents /\ resolution.strategy \in {"priority_weighted", "safety_first"})
        => OrderIndependent

RateLimit == Len(admitted) <= max_calls

\* The window is full, a caller that found it full is asleep and another
\* one has just called acquire.
RateLimitWitness ==
    /\ Len(admitted) = max_calls
    /\ Len(_timestamps) = max_calls
    /\ \E c \in Callers : callers[c].pc = "sleeping" /\ callers[c].sleep_for > 0
    /\ \E c \in Callers : callers[c].pc = "ready"

\* ------------------------------------------------------------------------
\* C22  The rate limiter admits everyone
\* ------------------------------------------------------------------------
\* C22: with max_calls >= 1 and time advancing, every call of acquire
\* eventually returns: a caller that finds the window full waits and is
\* admitted later, and no call ends in an error.
AcquireReturns ==
    /\ \A c \in Callers : (callers[c].pc # "idle") ~> (callers[c].pc = "idle")
    /\ [](\A c \in Callers : callers[c].pc # "IndexError")

\* ------------------------------------------------------------------------
\* C23  Fallback on a degraded source
\* ------------------------------------------------------------------------
\* C23: when the remote decision source is configured but its call fails
\* or its reply cannot be parsed, make_decision returns the agent's own
\* rule-based fallback decision for the context: the same actions that
\* _make_fallback_decision(context) produces, as when the source is absent.
FallbackOnDegradedSource ==
    \A i \in DOMAIN agent_results :
        LET result == agent_results[i]
        IN  (pc = "decided" /\ result.response.kind \in {"api_error", "bad_json"}) =>
                result.decision[1].decisions =
                    _make_fallback_decision(result.agent, context, slos,
                                            result.current_hour).decisions

\* ------------------------------------------------------------------------
\* C24  Well-formed fallback decisions
\* ------------------------------------------------------------------------
\* A decision has a confidence in [0,1] and scores with comfort, energy,
\* reliability and security each in [0,1].
WellFormed(decision) ==
    /\ decision.confidence # <<>>
    /\ decision.confidence[1] \in 0..1000
    /\ decision.scores # <<>>
    /\ \A key \in {"comfort", "energy", "reliability", "security"} :
          \E kv \in decision.scores[1] : kv[1] = key /\ kv[2] \in 0..1000

\* C24: for each of the six agents and every context the rule-based
\* fallback decision contains a confidence field with a value in [0,1] and
\* a scores field with comfort, energy, reliability and security each in
\* [0,1].
FallbackWellFormed ==
    \A i \in DOMAIN agent_results :
        (pc = "decided" /\ agent_results[i].response.kind = "absent") =>
            WellFormed(agent_results[i].decision[1])

====
